---- MODULE Spec2Model ----
(***************************************************************************)
(* Chess Clash wagering escrow: the Express handlers of the game lifecycle *)
(* (create, verify-create, join, public join, verify-join, complete), the  *)
(* "games" table they read and write, the payment check validateSignature  *)
(* and the payouts sent from the escrow wallet.                            *)
(*                                                                         *)
(* Node runs the handlers on one thread and switches between requests at   *)
(* every await.  A handler that carries something it read from the table   *)
(* across an await to a later write (verify-join, complete) is two steps:  *)
(* the read with its checks, then the rest.  The handlers that write       *)
(* nothing they derived from an earlier read are one step.                 *)
(***************************************************************************)
EXTENDS Integers, Sequences, FiniteSets, Bags, TLC

(***************************************************************************)
(* Bounds of the exploration.                                              *)
(***************************************************************************)
MaxGames == 2
MaxRequests == 4
MaxRivalRequests == 5

(***************************************************************************)
(* Program constants.                                                      *)
(***************************************************************************)
TOKENS == {"SOL", "USDC", "BONK"}
SPL_MAP ==
    [t \in {"USDC", "BONK"} |->
        IF t = "USDC" THEN [mint |-> "mintUSDC", decimals |-> 6]
                      ELSE [mint |-> "mintBONK", decimals |-> 5]]
LAMPORTS_PER_SOL == 1000000000
Escrow == "ESCROW"
CHARGE_PERCENTAGE == 5
CAP_AMOUNT == 1
DRAW == "draw"
MATE == "mate"

None == "none"

(***************************************************************************)
(* The values requests are built from.                                     *)
(***************************************************************************)
LichessUsers == {"alice", "bob"}
Usernames == LichessUsers \cup {"ghost", None}
Addresses == {"A1", "A2"}
Accounts == Addresses \cup {"notAKey"}
MatchIds == {"m1", "m2"}
\* A third Lichess user and her address, who joins a game after another
\* opponent has.
Rival == "carol"
RivalAddress == "A3"

Pow10(n) == IF n = 6 THEN 1000000 ELSE IF n = 5 THEN 100000 ELSE 1

(***************************************************************************)
(* The ledger: the transactions a caller can name by signature.  A         *)
(* transaction is what getSignatureStatus and getParsedTransaction report  *)
(* of it: its confirmation status, whether it is found at commitment       *)
(* "confirmed", its execution error, and its first instruction.            *)
(***************************************************************************)
Signatures ==
    {"sPay1", "sPay2", "sWrongTo", "sProcessed", "sFailed", "sUnknown",
     "sSplPlain", "sUsdc1", "sBonk1"}
\* Deposits of the large wagers, on which the fee reaches its cap.
LargeSignatures == {"sUsdc20", "sUsdc21"}
\* Two more deposits of 1 SOL, one for each joiner of a game with two joiners.
JoinerSignatures == {"sPay1b", "sPay1c"}
SignatureInputs == Signatures \cup {None}
\* A deposit that has left the node's recent status cache: getSignatureStatus
\* reports no status for it, getParsedTransaction still finds it.
AgedSignature == "sAged"

SysTransfer(to, lamports, conf, err) ==
    [confirmationStatus |-> conf, found |-> conf \in {"confirmed", "finalized"},
     err |-> err, program |-> "system", type |-> "transfer",
     destination |-> to, units |-> lamports, mint |-> None]
SplInstr(type, mint, to, units) ==
    [confirmationStatus |-> "finalized", found |-> TRUE, err |-> FALSE,
     program |-> "spl-token", type |-> type,
     destination |-> to, units |-> units, mint |-> mint]

Ledger(sig) ==
    CASE sig = AgedSignature ->
            [SysTransfer(Escrow, 1 * LAMPORTS_PER_SOL, None, FALSE) EXCEPT !.found = TRUE]
      [] sig = "sPay1" -> SysTransfer(Escrow, 1 * LAMPORTS_PER_SOL, "finalized", FALSE)
      [] sig \in JoinerSignatures -> SysTransfer(Escrow, 1 * LAMPORTS_PER_SOL, "finalized", FALSE)
      [] sig = "sPay2" -> SysTransfer(Escrow, 2 * LAMPORTS_PER_SOL, "confirmed", FALSE)
      [] sig = "sWrongTo" -> SysTransfer("A1", 1 * LAMPORTS_PER_SOL, "finalized", FALSE)
      [] sig = "sProcessed" -> SysTransfer(Escrow, 1 * LAMPORTS_PER_SOL, "processed", FALSE)
      [] sig = "sFailed" -> SysTransfer(Escrow, 1 * LAMPORTS_PER_SOL, "finalized", TRUE)
      [] sig = "sSplPlain" -> SplInstr("transfer", "mintUSDC", Escrow, 500000)
      [] sig = "sUsdc1" -> SplInstr("transferChecked", "mintUSDC", Escrow, 1 * Pow10(6))
      [] sig = "sUsdc20" -> SplInstr("transferChecked", "mintUSDC", Escrow, 20 * Pow10(6))
      [] sig = "sUsdc21" -> SplInstr("transferChecked", "mintUSDC", Escrow, 21 * Pow10(6))
      [] sig = "sBonk1" -> SplInstr("transferChecked", "mintBONK", Escrow, 1 * Pow10(5))
      [] OTHER -> SysTransfer(Escrow, 0, None, FALSE)

VARIABLES games, inflight, rounds, paid, resp, nreq
vars == <<games, inflight, rounds, paid, resp, nreq>>

Ids == 1..Len(games)
NoGame ==
    [id |-> 0, game_id |-> None, username |-> None, amount |-> 0, token |-> None,
     player_address |-> None, recipient_address |-> None, signature |-> None,
     is_verified |-> FALSE, is_public |-> FALSE, status |-> None,
     opponent_username |-> None, opponent_address |-> None,
     opponent_signature |-> None, created_at |-> 0]

\* The parameters of a request: the query string and the body.
Params(gameId, username, amount, token, public, account, sig) ==
    [gameId |-> gameId, username |-> username, amount |-> amount, token |-> token,
     public |-> public, account |-> account, sig |-> sig]
NoParams == Params(None, None, None, None, None, None, None)

\* A response: the handler, the id of the row it concerned (0: none), the
\* request's parameters, the error sent (None: success), whether the handler
\* changed the table, and the payouts it submitted.
Response(op, id, req, err, wrote, pays) ==
    [op |-> op, id |-> id, req |-> req, ok |-> (err = None), err |-> err,
     wrote |-> wrote, pays |-> pays]
NoResp == Response(None, 0, NoParams, None, FALSE, <<>>)

Init ==
    /\ games = <<>>
    /\ inflight = EmptyBag
    /\ rounds = <<>>
    /\ paid = <<>>
    /\ resp = NoResp
    /\ nreq = 0

(***************************************************************************)
(* db.ts: the "games" table.                                               *)
(***************************************************************************)
getGameById(id) == IF id \in Ids THEN games[id] ELSE NoGame

RowsWithGameId(gameId) == {i \in Ids : games[i].game_id = gameId}

\* .eq("game_id", gameId).single(): the row when exactly one matches.
getGame(gameId) ==
    IF Cardinality(RowsWithGameId(gameId)) = 1
    THEN games[CHOOSE i \in RowsWithGameId(gameId) : TRUE]
    ELSE NoGame

Merge(g, patch) == [f \in DOMAIN g |-> IF f \in DOMAIN patch THEN patch[f] ELSE g[f]]

\* .update(patch).eq("game_id", gameId).single(): an error, nothing written,
\* unless exactly one row matches.
updateGameApplies(gameId) == Cardinality(RowsWithGameId(gameId)) = 1
\* updateGame without the filter on game_id.
updateGame_NoFilter(gameId, patch) == [i \in Ids |-> Merge(games[i], patch)]

updateGame(gameId, patch) ==
    [i \in Ids |-> IF games[i].game_id = gameId THEN Merge(games[i], patch) ELSE games[i]]

\* The inserted row with the flag already set.
NewGame_Verified(gameId, username, amount, token, account, isPublic) ==
    [id |-> Len(games) + 1, game_id |-> gameId, username |-> username,
     amount |-> amount, token |-> token, player_address |-> account,
     recipient_address |-> Escrow, signature |-> None, is_verified |-> TRUE,
     is_public |-> isPublic, status |-> "created", opponent_username |-> None,
     opponent_address |-> None, opponent_signature |-> None,
     created_at |-> Len(games) + 1]

NewGame(gameId, username, amount, token, account, isPublic) ==
    [id |-> Len(games) + 1, game_id |-> gameId, username |-> username,
     amount |-> amount, token |-> token, player_address |-> account,
     recipient_address |-> Escrow, signature |-> None, is_verified |-> FALSE,
     is_public |-> isPublic, status |-> "created", opponent_username |-> None,
     opponent_address |-> None, opponent_signature |-> None,
     created_at |-> Len(games) + 1]

getUnMatchedGames ==
    SelectSeq(games, LAMBDA g : g.status = "created" /\ g.is_public /\ g.is_verified)

(***************************************************************************)
(* helpers.ts                                                              *)
(***************************************************************************)
\* The number parseFloat answers for a string that starts with no number; it
\* is neither <= 0 nor > 0.
NaN == -1
parseFloat(a) ==
    CASE a = "0" -> 0 [] a = "1" -> 1 [] a = "2" -> 2 [] a = "20" -> 20 [] a = "21" -> 21
      [] OTHER -> NaN

\* The insert sends the row as JSON, where NaN is null; the arithmetic of the
\* handlers reads a null amount as 0 (no transaction of the ledger moves 0).
jsonNumber(x) == IF x = NaN THEN 0 ELSE x

getProfileDetail(username) == username \in LichessUsers \cup {Rival}

\* validateUsername without the profile lookup.
validateUsername_NoLookup(username) ==
    IF username = None THEN "Missing input query parameter: username" ELSE None

validateUsername(username) ==
    IF username = None THEN "Missing input query parameter: username"
    ELSE IF ~getProfileDetail(username) THEN "Ensure you have entered a valid Lichess username"
    ELSE None

validatedQueryParams(gameId, username, amount, token) ==
    IF gameId = None THEN "Missing input query parameter: gameId"
    ELSE IF validateUsername(username) # None THEN validateUsername(username)
    ELSE IF amount = None \/ (parseFloat(amount) # NaN /\ parseFloat(amount) <= 0)
    THEN "Invalid input query parameter: amount"
    ELSE IF token = None THEN "Missing input query parameter: token"
    ELSE IF token \notin TOKENS THEN "Invalid input query parameter: token"
    ELSE None

\* Boolean(query.public) of a query string that is present.
isPublicOf(public) == public # None

validAccount(account) == account \in Addresses \cup {RivalAddress}

\* getSignatureStatus and the check of its confirmationStatus.
signatureStatus(sig) ==
    IF Ledger(sig).confirmationStatus # None
       /\ Ledger(sig).confirmationStatus \notin {"confirmed", "finalized"}
    THEN "Unable to confirm the transaction"
    ELSE None

\* The check of the parsed transaction without the test of its error.
parsedTransaction_NoErrCheck(sig) ==
    IF ~Ledger(sig).found THEN "Invalid or failed transaction" ELSE None

\* getParsedTransaction(signature, "confirmed") and the check of its result.
parsedTransaction(sig) ==
    IF ~Ledger(sig).found \/ Ledger(sig).err THEN "Invalid or failed transaction" ELSE None

mintRegistered(mint) == \E t \in DOMAIN SPL_MAP : SPL_MAP[t].mint = mint
decimalsOfMint(mint) == SPL_MAP[CHOOSE t \in DOMAIN SPL_MAP : SPL_MAP[t].mint = mint].decimals

validateSignature(game, tx) ==
    IF game.token = "SOL"
    THEN IF tx.program = "system" /\ tx.type = "transfer"
         THEN IF /\ tx.destination = game.recipient_address
                 /\ tx.units % LAMPORTS_PER_SOL = 0
                 /\ tx.units \div LAMPORTS_PER_SOL = game.amount
              THEN None
              ELSE "Transaction details do not match expected values"
         ELSE None
    ELSE IF tx.type = "transferChecked"
         THEN IF ~mintRegistered(tx.mint) THEN "Invalid token"
              ELSE IF /\ tx.destination = game.recipient_address
                      /\ tx.units % Pow10(decimalsOfMint(tx.mint)) = 0
                      /\ tx.units \div Pow10(decimalsOfMint(tx.mint)) = game.amount
                   THEN None
                   ELSE "Transaction details do not match expected values"
         ELSE None

Min(a, b) == IF a < b THEN a ELSE b

\* The fee without its cap.
getFee_NoCap(amount) == amount * CHARGE_PERCENTAGE

\* Amounts paid out are in hundredths of a token.
getFee(amount) == Min(amount * CHARGE_PERCENTAGE, CAP_AMOUNT * 100)

(***************************************************************************)
(* The handlers.  Each ends by setting resp, the response it sends.        *)
(***************************************************************************)
Respond(op, id, req, err, wrote, pays) == resp' = Response(op, id, req, err, wrote, pays)

\* postCreateGame.  storeOk: the insert succeeds; rpcOk: the calls made after
\* the insert to build the deposit transaction succeed (the transfer
\* instruction of a NaN amount cannot be built).
CreateError(gameId, username, amount, token, account) ==
    IF validatedQueryParams(gameId, username, amount, token) # None
    THEN validatedQueryParams(gameId, username, amount, token)
    ELSE IF ~validAccount(account) THEN "Invalid account provided"
    ELSE None

postCreateGame(gameId, username, amount, token, public, account, storeOk, rpcOk) ==
    LET err == CreateError(gameId, username, amount, token, account)
        req == Params(gameId, username, amount, token, public, account, None)
    IN
    /\ Len(games) < MaxGames
    /\ UNCHANGED inflight
    /\ IF err # None
       THEN /\ Respond("create", 0, req, err, FALSE, <<>>)
            /\ UNCHANGED <<games, rounds, paid, nreq>>
       ELSE IF ~storeOk
       THEN /\ Respond("create", 0, req, "Error creating game, please try again", FALSE, <<>>)
            /\ UNCHANGED <<games, rounds, paid, nreq>>
       ELSE /\ nreq' = nreq + 1
            /\ games' = Append(games, NewGame(gameId, username, jsonNumber(parseFloat(amount)),
                                               token, account, isPublicOf(public)))
            /\ rounds' = Append(rounds, 0)
            /\ paid' = Append(paid, 0)
            /\ Respond("create", Len(games) + 1, req,
                       IF rpcOk /\ parseFloat(amount) # NaN
                       THEN None ELSE "An unknown error occurred", TRUE, <<>>)

\* The patch of postVerifyCreateGame without the flag.
VerifyCreatePatch_NoFlag(sig) == [signature |-> sig]

\* postVerifyCreateGame.
VerifyCreatePatch(sig) == [signature |-> sig, is_verified |-> TRUE]

VerifyCreateError(gameId, account, sig) ==
    IF gameId = None THEN "Missing input query parameter: gameId"
    ELSE IF ~validAccount(account) THEN "Invalid account provided"
    ELSE IF sig = None THEN "Invalid signature provided"
    ELSE IF signatureStatus(sig) # None THEN signatureStatus(sig)
    ELSE IF getGame(gameId) = NoGame THEN "Game not found"
    ELSE IF parsedTransaction(sig) # None THEN parsedTransaction(sig)
    ELSE validateSignature(getGame(gameId), Ledger(sig))

postVerifyCreateGame(gameId, account, sig, storeOk) ==
    LET err == VerifyCreateError(gameId, account, sig)
        req == Params(gameId, None, None, None, None, account, sig)
    IN
    /\ UNCHANGED <<inflight, rounds, paid>>
    /\ IF err # None
       THEN /\ Respond("verifyCreate", getGame(gameId).id, req, err, FALSE, <<>>)
            /\ UNCHANGED <<games, nreq>>
       ELSE IF ~(storeOk /\ updateGameApplies(gameId))
       THEN /\ Respond("verifyCreate", getGame(gameId).id, req,
                       "Error updating game, please try again", FALSE, <<>>)
            /\ UNCHANGED <<games, nreq>>
       ELSE /\ nreq' = nreq + 1
            /\ games' = updateGame(gameId, VerifyCreatePatch(sig))
            /\ Respond("verifyCreate", getGame(gameId).id, req, None, TRUE, <<>>)

\* The join checks without the test of is_verified.
JoinError_NoVerifiedCheck(id, username, account) ==
    IF validateUsername(username) # None THEN validateUsername(username)
    ELSE IF id = 0 THEN "Missing input query parameter: gameUid"
    ELSE IF getGameById(id) = NoGame THEN "Game not found"
    ELSE IF getGameById(id).status # "created" THEN "Game is not available to join"
    ELSE IF getGameById(id).username = username THEN "You cannot join your own game"
    ELSE IF ~validAccount(account) THEN "Invalid account provided"
    ELSE IF getGameById(id).player_address = account THEN "You cannot join your own game"
    ELSE None

\* The checks postJoinGame and postPublicGames make, in their order.
JoinError(id, username, account) ==
    IF validateUsername(username) # None THEN validateUsername(username)
    ELSE IF id = 0 THEN "Missing input query parameter: gameUid"
    ELSE IF getGameById(id) = NoGame THEN "Game not found"
    ELSE IF ~getGameById(id).is_verified THEN "Game is not verified"
    ELSE IF getGameById(id).status # "created" THEN "Game is not available to join"
    ELSE IF getGameById(id).username = username THEN "You cannot join your own game"
    ELSE IF ~validAccount(account) THEN "Invalid account provided"
    ELSE IF getGameById(id).player_address = account THEN "You cannot join your own game"
    ELSE None

\* postJoinGame storing the joiner's name and address on the row it accepts.
postJoinGame_Stages(id, username, account, rpcOk) ==
    /\ UNCHANGED <<inflight, rounds, paid, nreq>>
    /\ games' = IF JoinError(id, username, account) = None
                THEN [games EXCEPT ![id] = Merge(@, [opponent_username |-> username,
                                                     opponent_address |-> account])]
                ELSE games
    /\ Respond("join", id, Params(None, username, None, None, None, account, None),
               IF JoinError(id, username, account) # None THEN JoinError(id, username, account)
               ELSE IF rpcOk THEN None ELSE "An unknown error occurred",
               FALSE, <<>>)

\* postJoinGame: builds the deposit transaction, writes nothing.
postJoinGame(id, username, account, rpcOk) ==
    /\ UNCHANGED <<games, inflight, rounds, paid, nreq>>
    /\ Respond("join", id, Params(None, username, None, None, None, account, None),
               IF JoinError(id, username, account) # None THEN JoinError(id, username, account)
               ELSE IF rpcOk THEN None ELSE "An unknown error occurred",
               FALSE, <<>>)

\* postPublicGames: the same checks and the same response.
postPublicGames(id, username, account, rpcOk) ==
    /\ UNCHANGED <<games, inflight, rounds, paid, nreq>>
    /\ Respond("publicJoin", id, Params(None, username, None, None, None, account, None),
               IF JoinError(id, username, account) # None THEN JoinError(id, username, account)
               ELSE IF rpcOk THEN None ELSE "An unknown error occurred",
               FALSE, <<>>)

\* A request between its read of the table and its write: the handler and the
\* row it read.
Pending(op, game) == [op |-> op, game |-> game]
PendingOf(op) == {r \in BagToSet(inflight) : r.op = op}

\* postVerifyJoinGame up to its first await after the read.
VerifyJoinReadError(id) ==
    IF id = 0 THEN "Game UID is required"
    ELSE IF getGameById(id) = NoGame THEN "Game not found"
    ELSE IF ~getGameById(id).is_verified THEN "Game is not verified"
    ELSE IF getGameById(id).status # "created" THEN "Game is not available to join"
    ELSE None

postVerifyJoinGameRead(id) ==
    /\ UNCHANGED <<games, rounds, paid>>
    /\ IF VerifyJoinReadError(id) # None
       THEN /\ Respond("verifyJoin", id, NoParams, VerifyJoinReadError(id), FALSE, <<>>)
            /\ UNCHANGED <<inflight, nreq>>
       ELSE /\ nreq' = nreq + 1
            /\ inflight' = inflight (+) SetToBag({Pending("verifyJoin", getGameById(id))})
            /\ UNCHANGED resp

\* The patch of postVerifyJoinGame built by spreading the row read earlier.
VerifyJoinPatch_Spread(game, username, account, sig) ==
    [opponent_address |-> account, opponent_signature |-> sig,
     opponent_username |-> username, status |-> game.status]

\* The verify-join checks without the comparison of the addresses.
VerifyJoinError_NoAddressCheck(game, username, account, sig) ==
    IF validateUsername(username) # None THEN validateUsername(username)
    ELSE IF game.username = username THEN "You cannot join your own game"
    ELSE IF ~validAccount(account) THEN "Invalid account provided"
    ELSE IF sig = None THEN "Invalid signature provided"
    ELSE IF signatureStatus(sig) # None THEN signatureStatus(sig)
    ELSE IF parsedTransaction(sig) # None THEN parsedTransaction(sig)
    ELSE validateSignature(game, Ledger(sig))

\* The verify-join checks without the comparison of the usernames.
VerifyJoinError_NoUsernameCheck(game, username, account, sig) ==
    IF validateUsername(username) # None THEN validateUsername(username)
    ELSE IF ~validAccount(account) THEN "Invalid account provided"
    ELSE IF game.player_address = account THEN "You cannot join your own game"
    ELSE IF sig = None THEN "Invalid signature provided"
    ELSE IF signatureStatus(sig) # None THEN signatureStatus(sig)
    ELSE IF parsedTransaction(sig) # None THEN parsedTransaction(sig)
    ELSE validateSignature(game, Ledger(sig))

\* The rest of postVerifyJoinGame, on the row read earlier.
VerifyJoinPatch(game, username, account, sig) ==
    [opponent_address |-> account, opponent_signature |-> sig, opponent_username |-> username]

VerifyJoinError(game, username, account, sig) ==
    IF validateUsername(username) # None THEN validateUsername(username)
    ELSE IF game.username = username THEN "You cannot join your own game"
    ELSE IF ~validAccount(account) THEN "Invalid account provided"
    ELSE IF game.player_address = account THEN "You cannot join your own game"
    ELSE IF sig = None THEN "Invalid signature provided"
    ELSE IF signatureStatus(sig) # None THEN signatureStatus(sig)
    ELSE IF parsedTransaction(sig) # None THEN parsedTransaction(sig)
    ELSE validateSignature(game, Ledger(sig))

postVerifyJoinGameFinish(r, username, account, sig, storeOk) ==
    LET err == VerifyJoinError(r.game, username, account, sig)
        req == Params(None, username, None, None, None, account, sig)
    IN
    /\ r.op = "verifyJoin"
    /\ inflight' = inflight (-) SetToBag({r})
    /\ UNCHANGED <<rounds, paid, nreq>>
    /\ IF err # None
       THEN /\ Respond("verifyJoin", r.game.id, req, err, FALSE, <<>>)
            /\ UNCHANGED games
       ELSE IF ~(storeOk /\ updateGameApplies(r.game.game_id))
       THEN /\ Respond("verifyJoin", r.game.id, req,
                       "Error updating game, please try again", FALSE, <<>>)
            /\ UNCHANGED games
       ELSE /\ games' = updateGame(r.game.game_id, VerifyJoinPatch(r.game, username, account, sig))
            /\ Respond("verifyJoin", r.game.id, req, None, TRUE, <<>>)

\* postCompleteGame reading the row without the test of its status.
CompleteReadError_NoCompletedCheck(id, account) ==
    IF id = 0 THEN "Game UID is required"
    ELSE IF getGameById(id) = NoGame THEN "Game not found"
    ELSE IF ~getGameById(id).is_verified THEN "Game is not verified"
    ELSE IF ~validAccount(account) THEN "Invalid account provided"
    ELSE None

\* postCompleteGame up to its first await after the read.
CompleteReadError(id, account) ==
    IF id = 0 THEN "Game UID is required"
    ELSE IF getGameById(id) = NoGame THEN "Game not found"
    ELSE IF ~getGameById(id).is_verified THEN "Game is not verified"
    ELSE IF getGameById(id).status = "completed" THEN "Game is already completed"
    ELSE IF ~validAccount(account) THEN "Invalid account provided"
    ELSE None

\* postCompleteGame taking the caller's account for the creator's address.
postCompleteGameRead_CallerPaid(id, account) ==
    /\ UNCHANGED <<games, rounds, paid>>
    /\ IF CompleteReadError(id, account) # None
       THEN /\ Respond("complete", id, Params(None, None, None, None, None, account, None),
                         CompleteReadError(id, account), FALSE, <<>>)
            /\ UNCHANGED <<inflight, nreq>>
       ELSE /\ nreq' = nreq + 1
            /\ inflight' = inflight (+) SetToBag({Pending("complete",
                                [getGameById(id) EXCEPT !.player_address = account])})
            /\ UNCHANGED resp

postCompleteGameRead(id, account) ==
    /\ UNCHANGED <<games, rounds, paid>>
    /\ IF CompleteReadError(id, account) # None
       THEN /\ Respond("complete", id, Params(None, None, None, None, None, account, None),
                         CompleteReadError(id, account), FALSE, <<>>)
            /\ UNCHANGED <<inflight, nreq>>
       ELSE /\ nreq' = nreq + 1
            /\ inflight' = inflight (+) SetToBag({Pending("complete", getGameById(id))})
            /\ UNCHANGED resp

\* What getGameStats returns: the fetch fails, or the exported match.
GameStat(fetched, status, white, black, winner) ==
    [fetched |-> fetched, status |-> status, white |-> white, black |-> black,
     winner |-> winner]
GameStats ==
    {GameStat(FALSE, None, None, None, None), GameStat(TRUE, "started", "alice", "bob", None),
     GameStat(TRUE, DRAW, "alice", "bob", None)}
    \cup {GameStat(TRUE, MATE, w, b, c) :
            w \in LichessUsers, b \in LichessUsers, c \in {"white", "black"}}

\* players[stat.winner] and the addresses object built from the row.
winnerOf(stat) == IF stat.winner = "white" THEN stat.white ELSE stat.black
winnerAddress(game, stat) ==
    IF winnerOf(stat) = game.opponent_username THEN game.opponent_address
    ELSE IF winnerOf(stat) = game.username THEN game.player_address
    ELSE None

Payout(to, amount, ok) == [to |-> to, amount |-> amount, ok |-> ok]

\* The sendPayout calls of postCompleteGame; ok1, ok2: whether each succeeds.
CompletePayouts(game, stat, ok1, ok2) ==
    IF stat.status = DRAW
    THEN <<Payout(game.player_address, game.amount * 100 - getFee(game.amount), ok1)>>
         \o (IF game.opponent_address # None
             THEN <<Payout(game.opponent_address,
                           game.amount * 100 - getFee(game.amount), ok2)>>
             ELSE <<>>)
    ELSE <<Payout(winnerAddress(game, stat),
                  game.amount * 2 * 100 - getFee(game.amount), ok1)>>

\* The checks of the attested match without the test of its status.
CompleteError_NoOutcomeCheck(game, stat) ==
    IF ~stat.fetched THEN "Unable to get game stats"
    ELSE IF stat.status = MATE /\ winnerAddress(game, stat) = None
    THEN "Address not found for winner"
    ELSE None

CompleteError(game, stat) ==
    IF ~stat.fetched THEN "Unable to get game stats"
    ELSE IF stat.status # DRAW /\ stat.status # MATE THEN "Game is not over"
    ELSE IF stat.status = MATE /\ winnerAddress(game, stat) = None
    THEN "Address not found for winner"
    ELSE None

\* The patch of postCompleteGame settling the wager too.
CompletePatch_ZeroAmount == [status |-> "completed", amount |-> 0]

CompletePatch == [status |-> "completed"]

\* What a complete request was given besides its parameters: whether the
\* attested match was fetched, its status and, for a mate, the winner's name.
Attested(stat) ==
    [gameId |-> None, username |-> None, amount |-> None, token |-> None,
     public |-> None, account |-> None, sig |-> None,
     fetched |-> stat.fetched, status |-> stat.status,
     winner |-> IF stat.status = MATE THEN winnerOf(stat) ELSE None]

RECURSIVE PaidSum(_)
PaidSum(pays) ==
    IF pays = <<>> THEN 0
    ELSE (IF Head(pays).ok THEN Head(pays).amount ELSE 0) + PaidSum(Tail(pays))

\* The rest of postCompleteGame, on the row read earlier.
postCompleteGameFinish(r, stat, ok1, ok2, storeOk) ==
    LET game == r.game
        err == CompleteError(game, stat)
        pays == CompletePayouts(game, stat, ok1, ok2)
    IN
    /\ r.op = "complete"
    /\ inflight' = inflight (-) SetToBag({r})
    /\ UNCHANGED nreq
    /\ IF err # None
       THEN /\ Respond("complete", game.id, Attested(stat), err, FALSE, <<>>)
            /\ UNCHANGED <<games, rounds, paid>>
       ELSE /\ paid' = [paid EXCEPT ![game.id] = @ + PaidSum(pays)]
            /\ rounds' = [rounds EXCEPT ![game.id] = @ + (IF PaidSum(pays) > 0 THEN 1 ELSE 0)]
            /\ IF ~(storeOk /\ updateGameApplies(game.game_id))
               THEN /\ Respond("complete", game.id, Attested(stat),
                               "Error updating game, please try again", FALSE, pays)
                    /\ UNCHANGED games
               ELSE /\ games' = updateGame(game.game_id, CompletePatch)
                    /\ Respond("complete", game.id, Attested(stat), None, TRUE, pays)

(***************************************************************************)
(* The requests explored.  A create request is a well-formed one, or the   *)
(* first well-formed one with a single parameter missing or malformed, or  *)
(* with the store or the RPC node failing.                                 *)
(***************************************************************************)
CreateRequest(gameId, username, amount, token, public, account, storeOk, rpcOk) ==
    [gameId |-> gameId, username |-> username, amount |-> amount, token |-> token,
     public |-> public, account |-> account, storeOk |-> storeOk, rpcOk |-> rpcOk]

\* Users, addresses and match ids are interchangeable to the code, so the
\* creator of every game is alice at A1 (the joiners range over every user and
\* address) and a run uses m1 before m2.
Terms == {<<"1", "SOL">>, <<"2", "SOL">>, <<"1", "USDC">>}
CreateRequests ==
    {CreateRequest(m, "alice", t[1], t[2], p, "A1", TRUE, TRUE) :
        m \in MatchIds, t \in Terms, p \in {"true", None}}
    \cup {CreateRequest(None, "alice", "1", "SOL", None, "A1", TRUE, TRUE),
          CreateRequest("m1", None, "1", "SOL", None, "A1", TRUE, TRUE),
          CreateRequest("m1", "ghost", "1", "SOL", None, "A1", TRUE, TRUE),
          CreateRequest("m1", "alice", None, "SOL", None, "A1", TRUE, TRUE),
          CreateRequest("m1", "alice", "0", "SOL", None, "A1", TRUE, TRUE),
          CreateRequest("m1", "alice", "1", None, None, "A1", TRUE, TRUE),
          CreateRequest("m1", "alice", "1", "DOGE", None, "A1", TRUE, TRUE),
          CreateRequest("m1", "alice", "1", "SOL", "false", "A1", TRUE, TRUE),
          CreateRequest("m1", "alice", "1", "SOL", None, "notAKey", TRUE, TRUE),
          CreateRequest("m1", "alice", "1", "SOL", None, "A1", FALSE, TRUE),
          CreateRequest("m1", "alice", "1", "SOL", None, "A1", TRUE, FALSE)}

\* Games are rows that meet only in getGame, updateGame and the listing, which
\* read game_id, is_public, is_verified, status and created_at: the games of one
\* run have the same wager and token.
SameTerms(q) ==
    \A i \in Ids :
        q.amount \in {"1", "2"} /\ q.token \in TOKENS
            => games[i].amount = parseFloat(q.amount) /\ games[i].token = q.token
FirstMatchIdFirst(q) == q.gameId = "m2" => games # <<>>

VerifyCreateRequest(gameId, account, sig, storeOk) ==
    [gameId |-> gameId, account |-> account, sig |-> sig, storeOk |-> storeOk]
VerifyCreateRequests ==
    {VerifyCreateRequest(m, "A1", s, TRUE) : m \in MatchIds, s \in Signatures}
    \cup {VerifyCreateRequest(None, "A1", "sPay1", TRUE),
          VerifyCreateRequest("m1", "notAKey", "sPay1", TRUE),
          VerifyCreateRequest("m1", "A2", "sPay1", TRUE),
          VerifyCreateRequest("m1", "A1", None, TRUE),
          VerifyCreateRequest("m1", "A1", AgedSignature, TRUE),
          VerifyCreateRequest("m1", "A1", "sPay1", FALSE)}

JoinRequest(id, username, account, rpcOk) ==
    [id |-> id, username |-> username, account |-> account, rpcOk |-> rpcOk]
JoinRequests ==
    {JoinRequest(i, "bob", "A2", TRUE) : i \in 0..MaxGames}
    \cup {JoinRequest(i, u, "A2", TRUE) : i \in 1..MaxGames, u \in Usernames}
    \cup {JoinRequest(i, "bob", a, TRUE) : i \in 1..MaxGames, a \in Accounts}
    \cup {JoinRequest(1, "bob", "A2", FALSE)}

VerifyJoinRequest(username, account, sig, storeOk) ==
    [username |-> username, account |-> account, sig |-> sig, storeOk |-> storeOk]
VerifyJoinRequests ==
    {VerifyJoinRequest(u, a, s, TRUE) : u \in LichessUsers, a \in Addresses, s \in Signatures}
    \cup {VerifyJoinRequest(u, "A2", "sPay1", TRUE) : u \in {"ghost", None}}
    \cup {VerifyJoinRequest("bob", "notAKey", "sPay1", TRUE),
          VerifyJoinRequest("bob", "A2", None, TRUE),
          VerifyJoinRequest("bob", "A2", AgedSignature, TRUE),
          VerifyJoinRequest("bob", "A2", "sPay1", FALSE),
          VerifyJoinRequest("bob", "A2", "sUsdc1", FALSE)}

\* The thread is free when no response is being sent.  A new request starts
\* while fewer than MaxRequests requests have got past their checks.
Free == resp = NoResp
CanStart == Free /\ nreq < MaxRequests

Create(q) ==
    /\ CanStart
    /\ SameTerms(q)
    /\ FirstMatchIdFirst(q)
    /\ postCreateGame(q.gameId, q.username, q.amount, q.token, q.public, q.account,
                      q.storeOk, q.rpcOk)
VerifyCreate(q) == CanStart /\ postVerifyCreateGame(q.gameId, q.account, q.sig, q.storeOk)
Join(q) == CanStart /\ postJoinGame(q.id, q.username, q.account, q.rpcOk)
PublicJoin(q) == CanStart /\ postPublicGames(q.id, q.username, q.account, q.rpcOk)
VerifyJoinRead(id) == CanStart /\ postVerifyJoinGameRead(id)
VerifyJoinFinish(r, q) ==
    Free /\ postVerifyJoinGameFinish(r, q.username, q.account, q.sig, q.storeOk)
CompleteRead(id, account) == CanStart /\ postCompleteGameRead(id, account)
\* What the world answers a complete request: the match, whether each payout
\* succeeds on the ledger, whether the store takes the update.
CompleteOutcomes == [stat : GameStats, ok1 : BOOLEAN, ok2 : BOOLEAN, storeOk : BOOLEAN]
CompleteFinish(r, o) == Free /\ postCompleteGameFinish(r, o.stat, o.ok1, o.ok2, o.storeOk)

\* res.json(payload): the response leaves; the thread is then free for the
\* next request or continuation.
Sent ==
    /\ resp # NoResp
    /\ resp' = NoResp
    /\ UNCHANGED <<games, inflight, rounds, paid, nreq>>

Next ==
    \/ \E q \in CreateRequests : Create(q)
    \/ \E q \in VerifyCreateRequests : VerifyCreate(q)
    \/ \E q \in JoinRequests : Join(q)
    \/ \E q \in JoinRequests : PublicJoin(q)
    \/ \E id \in 0..MaxGames : VerifyJoinRead(id)
    \/ \E r \in PendingOf("verifyJoin"), q \in VerifyJoinRequests : VerifyJoinFinish(r, q)
    \/ \E id \in 0..MaxGames, account \in Accounts : CompleteRead(id, account)
    \/ \E r \in PendingOf("complete"), o \in CompleteOutcomes : CompleteFinish(r, o)
    \/ Sent

Spec == Init /\ [][Next]_vars

(***************************************************************************)
(* The payouts on large wagers: games of 1, 20 and 21 USDC, each verified  *)
(* with the deposit of its wager and then completed.                       *)
(***************************************************************************)
LargeWagers == {"1", "20", "21"}
LargeCreateRequests ==
    {CreateRequest(m, "alice", w, "USDC", None, "A1", TRUE, TRUE) :
        m \in MatchIds, w \in LargeWagers \cup {"abc"}}
LargeVerifyCreateRequests ==
    {VerifyCreateRequest(m, "A1", sig, TRUE) :
        m \in MatchIds, sig \in LargeSignatures \cup {"sUsdc1"}}
LargeNext ==
    \/ \E q \in LargeCreateRequests : Create(q)
    \/ \E q \in LargeVerifyCreateRequests : VerifyCreate(q)
    \/ \E id \in 1..MaxGames : CompleteRead(id, "A1")
    \/ \E r \in PendingOf("complete"), o \in CompleteOutcomes : CompleteFinish(r, o)
    \/ Sent
LargeSpec == Init /\ [][LargeNext]_vars

(***************************************************************************)
(* A game with two joiners: alice's game of 1 SOL, which bob and carol     *)
(* both join with a deposit while complete requests run.                   *)
(***************************************************************************)
RivalCanStart == Free /\ nreq < MaxRivalRequests
RivalVerifyJoinRequests ==
    {VerifyJoinRequest("bob", "A2", "sPay1b", TRUE),
     VerifyJoinRequest(Rival, RivalAddress, "sPay1c", TRUE)}
RivalOutcomes ==
    {[stat |-> GameStat(TRUE, st, "alice", "bob", c), ok1 |-> TRUE, ok2 |-> TRUE,
      storeOk |-> TRUE] : st \in {DRAW, MATE}, c \in {"white", "black"}}
RivalNext ==
    \/ RivalCanStart /\ games = <<>>
          /\ postCreateGame("m1", "alice", "1", "SOL", None, "A1", TRUE, TRUE)
    \/ RivalCanStart /\ postVerifyCreateGame("m1", "A1", "sPay1", TRUE)
    \/ RivalCanStart /\ postVerifyJoinGameRead(1)
    \/ \E r \in PendingOf("verifyJoin"), q \in RivalVerifyJoinRequests : VerifyJoinFinish(r, q)
    \/ RivalCanStart /\ postCompleteGameRead(1, "A1")
    \/ \E r \in PendingOf("complete"), o \in RivalOutcomes : CompleteFinish(r, o)
    \/ Sent
RivalSpec == Init /\ [][RivalNext]_vars

(***************************************************************************)
(* Properties.                                                             *)
(***************************************************************************)
Answered(op) == resp # NoResp /\ resp.op = op
JoinOps == {"join", "publicJoin", "verifyJoin"}
Rank(status) == IF status = "created" THEN 0 ELSE IF status = "matched" THEN 1 ELSE 2

\* C1: once a game is completed, a complete request that arrives is answered
\* "Game is already completed" at its read, goes no further, submits no payout
\* and changes nothing.
C1_Step ==
    \A id \in Ids :
        games[id].status = "completed" =>
            /\ \A r \in BagToSet(inflight') :
                  r.op = "complete" /\ r.game.id = id
                      => CopiesIn(r, inflight') <= CopiesIn(r, inflight)
            /\ (resp' # NoResp /\ resp'.op = "complete" /\ resp'.id = id
                    /\ inflight' = inflight)
                  => /\ resp'.err = "Game is already completed"
                     /\ resp'.pays = <<>>
                     /\ <<games, paid, rounds>>' = <<games, paid, rounds>>
C1_CompleteIdempotent == [][C1_Step]_vars
C1_Witness ==
    /\ Answered("complete")
    /\ resp.err = "Game is already completed"
    /\ rounds[resp.id] = 1
    /\ games[resp.id].status = "completed"

\* C2: the payout of a game is executed at most once however complete
\* requests overlap: once it has been executed and the game is marked
\* completed, no complete request still in flight executes it again.
C2_Step ==
    \A id \in Ids :
        games[id].status = "completed" /\ rounds[id] >= 1 => rounds'[id] = rounds[id]
C2_PayoutAtMostOnce == [][C2_Step]_vars

\* C3: a join, public join, verify-join or complete addressed to a game that
\* is not verified is answered with an error, writes nothing and pays nothing;
\* no request on such a game gets past its read; and while a game is not
\* verified its row, and what was paid out for it, stay as they are.
C3_Rejected ==
    /\ (resp # NoResp /\ resp.op \in JoinOps \cup {"complete"} /\ resp.id \in Ids
            /\ ~games[resp.id].is_verified)
          => ~resp.ok /\ ~resp.wrote /\ resp.pays = <<>>
    /\ \A r \in BagToSet(inflight) : r.game.is_verified
C3_Untouched ==
    \A id \in Ids :
        ~games'[id].is_verified
            => games'[id] = games[id] /\ paid'[id] = paid[id] /\ rounds'[id] = rounds[id]
C3_VerificationGate == []C3_Rejected /\ [][C3_Untouched]_vars
C3_Witness ==
    /\ Answered("complete")
    /\ resp.id \in Ids
    /\ ~games[resp.id].is_verified
    /\ resp.err = "Game is not verified"

\* C4: a join, public join or verify-join whose username is the game's stored
\* creator username, or whose account is the stored creator address, is
\* answered with an error and writes nothing.
SelfJoin(id) ==
    \/ resp.req.username = games[id].username
    \/ resp.req.account = games[id].player_address
C4_NoSelfMatch ==
    (resp # NoResp /\ resp.op \in JoinOps /\ resp.id \in Ids /\ SelfJoin(resp.id))
        => ~resp.ok /\ ~resp.wrote
C4_Witness ==
    /\ Answered("verifyJoin")
    /\ resp.id \in Ids
    /\ resp.req.username # games[resp.id].username
    /\ resp.req.account = games[resp.id].player_address
    /\ resp.err = "You cannot join your own game"

\* C5: every stored row with an opponent has an opponent address other than
\* the creator address and an opponent username other than the creator's.
HasOpponent(g) ==
    g.opponent_address # None \/ g.opponent_username # None \/ g.opponent_signature # None
C5_OpponentIsNotCreator ==
    \A id \in Ids :
        HasOpponent(games[id])
            => /\ games[id].opponent_address # games[id].player_address
               /\ games[id].opponent_username # games[id].username
C5_Witness ==
    \E id \in Ids : HasOpponent(games[id]) /\ games[id].status = "completed"

\* C6: the deposit signature stored for the creator of a verified game, and
\* the one stored for an opponent, name a transaction that transfers the
\* game's wager to the game's escrow address.
UnitsPerToken(tx) ==
    IF tx.program = "system" THEN LAMPORTS_PER_SOL ELSE Pow10(decimalsOfMint(tx.mint))
PaysWager(game, tx) ==
    /\ tx.destination = game.recipient_address
    /\ tx.units = game.amount * UnitsPerToken(tx)
C6_PaymentBinding ==
    \A id \in Ids :
        /\ games[id].is_verified => PaysWager(games[id], Ledger(games[id].signature))
        /\ games[id].opponent_signature # None
              => PaysWager(games[id], Ledger(games[id].opponent_signature))

\* C7: a complete request one of whose payouts failed on the ledger is
\* answered with an error and does not mark the game completed.
SomePayoutFailed(pays) == \E k \in DOMAIN pays : ~pays[k].ok
C7_FailedPayoutFailsComplete ==
    (Answered("complete") /\ SomePayoutFailed(resp.pays)) => ~resp.ok /\ ~resp.wrote

\* C8: a request answered with an error has left the table as it was.
C8_Step == (resp' # NoResp /\ ~resp'.ok) => games' = games
C8_NoPartialMutation == [][C8_Step]_vars

\* C9: no step moves the status of a game backwards in the order
\* created, matched, completed.
C9_Step == \A id \in Ids : Rank(games'[id].status) >= Rank(games[id].status)
C9_StatusOnlyAdvances == [][C9_Step]_vars
C9_Witness ==
    \E id \in Ids : games[id].status = "completed" /\ HasOpponent(games[id])

\* C10: no field of a completed game changes again.
C10_Step == \A id \in Ids : games[id].status = "completed" => games'[id] = games[id]
C10_CompletedIsTerminal == [][C10_Step]_vars

\* C11: the fee taken from a payout is min(w * rate / 100, cap) for the game's
\* wager w: it is not negative, not above the cap, not above w * rate / 100,
\* and equal to one of the two.  Every payout of a complete request is the
\* wager, or twice the wager, less that fee (amounts in hundredths).
FeeRule(w, fee) ==
    /\ fee >= 0
    /\ fee <= CAP_AMOUNT * 100
    /\ fee <= w * CHARGE_PERCENTAGE
    /\ fee = w * CHARGE_PERCENTAGE \/ fee = CAP_AMOUNT * 100
C11_FeeRule ==
    Answered("complete") =>
        \A k \in DOMAIN resp.pays :
            \E fee \in 0..(CAP_AMOUNT * 100) :
                /\ FeeRule(games[resp.id].amount, fee)
                /\ resp.pays[k].amount \in {games[resp.id].amount * 100 - fee,
                                            2 * games[resp.id].amount * 100 - fee}
C11_Witness ==
    /\ Answered("complete")
    /\ resp.pays # <<>>
    /\ games[resp.id].amount * CHARGE_PERCENTAGE > CAP_AMOUNT * 100
    /\ resp.pays[1].amount = games[resp.id].amount * 100 - CAP_AMOUNT * 100

\* C12: a complete request that resolves a draw issues exactly these payouts:
\* the wager less the fee to the creator address, and the wager less the fee
\* to the opponent address if and only if the stored row has an opponent
\* address; together they are at most twice the wager.
DrawPayouts(g, pays) ==
    \E fee \in 0..(CAP_AMOUNT * 100) :
        /\ FeeRule(g.amount, fee)
        /\ Len(pays) = IF g.opponent_address # None THEN 2 ELSE 1
        /\ pays[1].to = g.player_address
        /\ pays[1].amount = g.amount * 100 - fee
        /\ Len(pays) = 2 =>
              /\ pays[2].to = g.opponent_address
              /\ pays[2].amount = g.amount * 100 - fee
        /\ Len(pays) * (g.amount * 100 - fee) <= 2 * g.amount * 100
CompleteAnswers ==
    resp = NoResp /\ resp' # NoResp /\ resp'.op = "complete" /\ inflight' # inflight
C12_Step ==
    (CompleteAnswers /\ resp'.req.fetched /\ resp'.req.status = DRAW)
        => DrawPayouts(games[resp'.id], resp'.pays)
C12_DrawPayout == [][C12_Step]_vars

\* C13: a complete request that resolves a decisive outcome and pays issues
\* exactly one payout, of twice the wager less the fee, to the stored address
\* (the creator's or the opponent's) whose stored username is the attested
\* winner's.
DecisivePayout(g, winner, pays) ==
    \E fee \in 0..(CAP_AMOUNT * 100) :
        /\ FeeRule(g.amount, fee)
        /\ Len(pays) = 1
        /\ pays[1].amount = 2 * g.amount * 100 - fee
        /\ \/ winner = g.username /\ pays[1].to = g.player_address
           \/ winner = g.opponent_username /\ pays[1].to = g.opponent_address
C13_Step ==
    (CompleteAnswers /\ resp'.req.fetched /\ resp'.req.status = MATE
            /\ resp'.err # "Address not found for winner")
        => DecisivePayout(games[resp'.id], resp'.req.winner, resp'.pays)
C13_DecisivePayout == [][C13_Step]_vars

\* C14: a verify-create request that names an unverified game in status
\* created and the signature of a confirmed or finalized, successfully
\* executed transaction whose first instruction transfers exactly the wager
\* to the escrow address succeeds (the store taking the update), sets
\* is_verified, records the signature and changes no other field of any row.
IsWagerTransfer(g, tx) ==
    /\ tx.destination = g.recipient_address
    /\ IF g.token = "SOL"
       THEN /\ tx.program = "system" /\ tx.type = "transfer"
            /\ tx.units = g.amount * LAMPORTS_PER_SOL
       ELSE /\ tx.program = "spl-token" /\ tx.type \in {"transfer", "transferChecked"}
            /\ tx.mint = SPL_MAP[g.token].mint
            /\ tx.units = g.amount * Pow10(SPL_MAP[g.token].decimals)
Settled(tx) ==
    tx.confirmationStatus \in {"confirmed", "finalized"} /\ tx.found /\ ~tx.err
C14_Step ==
    (resp = NoResp /\ resp' # NoResp /\ resp'.op = "verifyCreate") =>
        \A q \in VerifyCreateRequests \cup LargeVerifyCreateRequests :
            LET g == getGame(q.gameId) IN
            (/\ q.storeOk /\ validAccount(q.account) /\ q.sig # None
             /\ q.gameId = resp'.req.gameId /\ q.sig = resp'.req.sig
             /\ g # NoGame /\ ~g.is_verified /\ g.status = "created"
             /\ Settled(Ledger(q.sig)) /\ IsWagerTransfer(g, Ledger(q.sig))
             /\ postVerifyCreateGame(q.gameId, q.account, q.sig, q.storeOk))
                => /\ resp'.ok
                   /\ games' = [games EXCEPT ![g.id] =
                                    [@ EXCEPT !.is_verified = TRUE, !.signature = q.sig]]
C14_VerifyCreateAccepts == [][C14_Step]_vars
C14_Witness ==
    /\ Answered("verifyCreate")
    /\ resp.ok
    /\ resp.id \in Ids
    /\ games[resp.id].is_verified
    /\ games[resp.id].signature = resp.req.sig
    /\ Settled(Ledger(resp.req.sig))
    /\ IsWagerTransfer(games[resp.id], Ledger(resp.req.sig))

\* C15: a verify-create or verify-join request whose transaction's first
\* instruction is not a recognized transfer for the game's token (a system
\* transfer for SOL, a transferChecked for a token) is answered with an error
\* and writes nothing.
VerifyOps == {"verifyCreate", "verifyJoin"}
AnsweredVerify ==
    resp # NoResp /\ resp.op \in VerifyOps /\ resp.id \in Ids /\ resp.req.sig # None
Recognized(g, tx) ==
    IF g.token = "SOL" THEN tx.program = "system" /\ tx.type = "transfer"
    ELSE tx.program = "spl-token" /\ tx.type = "transferChecked"
C15_UnrecognizedShapeRejected ==
    (AnsweredVerify /\ ~Recognized(games[resp.id], Ledger(resp.req.sig)))
        => ~resp.ok /\ ~resp.wrote

\* C16: a verify-create or verify-join request on a token game succeeds with
\* a transferChecked only if the mint transferred is the mint registered for
\* the game's token.
C16_MintBinding ==
    (AnsweredVerify /\ resp.ok /\ games[resp.id].token # "SOL"
            /\ Ledger(resp.req.sig).type = "transferChecked")
        => Ledger(resp.req.sig).mint = SPL_MAP[games[resp.id].token].mint

\* C17: a verify-create or verify-join request whose signature has no status
\* on the ledger, or a status other than confirmed or finalized, is answered
\* with an error and writes nothing.
C17_FinalityGate ==
    (AnsweredVerify
            /\ Ledger(resp.req.sig).confirmationStatus \notin {"confirmed", "finalized"})
        => ~resp.ok /\ ~resp.wrote

\* C18: a verify-create or verify-join request whose parsed transaction is
\* not found (or has no metadata), or has its execution error set, is
\* answered with an error and leaves the table as it was.
C18_Step ==
    (resp' # NoResp /\ resp'.op \in VerifyOps /\ resp'.req.sig # None
            /\ (~Ledger(resp'.req.sig).found \/ Ledger(resp'.req.sig).err))
        => ~resp'.ok /\ games' = games
C18_FailedTransactionGate == [][C18_Step]_vars
C18_Witness ==
    /\ AnsweredVerify
    /\ Ledger(resp.req.sig).confirmationStatus = "finalized"
    /\ Ledger(resp.req.sig).err
    /\ resp.err = "Invalid or failed transaction"

\* C19: a complete request whose fetch of the attested match fails, or whose
\* attested match is neither a draw nor a mate, is answered with an error,
\* submits no payout and leaves the table and the amounts paid as they were.
C19_Step ==
    (CompleteAnswers /\ (~resp'.req.fetched \/ resp'.req.status \notin {DRAW, MATE}))
        => /\ ~resp'.ok
           /\ resp'.pays = <<>>
           /\ <<games, paid, rounds>>' = <<games, paid, rounds>>
C19_OutcomeGate == [][C19_Step]_vars
C19_Witness ==
    /\ Answered("complete")
    /\ resp.err = "Game is not over"
    /\ resp.req.status = "started"
    /\ resp.id \in Ids
    /\ HasOpponent(games[resp.id])

\* C20: a complete request on a mate whose attested winner is neither the
\* stored creator username nor a stored opponent username with a stored
\* address is answered with an error, submits no payout and leaves the row,
\* its status included, as it was.
Resolves(g, winner) ==
    \/ winner = g.username
    \/ winner = g.opponent_username /\ g.opponent_address # None
C20_Step ==
    (CompleteAnswers /\ resp'.req.fetched /\ resp'.req.status = MATE
            /\ ~Resolves(games[resp'.id], resp'.req.winner))
        => /\ ~resp'.ok
           /\ resp'.pays = <<>>
           /\ games' = games
C20_UnresolvedWinnerFails == [][C20_Step]_vars

(***************************************************************************)
(* C21: a create request adds exactly one new record with status created,  *)
(* is_verified false and no opponent fields or signatures, and only when   *)
(* the game id is present, the username resolves, the amount is > 0 and    *)
(* the token is one of TOKENS; every other create adds no record.          *)
(***************************************************************************)
CreateAnswers == resp = NoResp /\ resp' # NoResp /\ resp'.op = "create"
ValidCreate(q) ==
    /\ q.gameId # None
    /\ q.username # None /\ getProfileDetail(q.username)
    /\ q.amount # None /\ parseFloat(q.amount) # NaN /\ parseFloat(q.amount) > 0
    /\ q.token \in TOKENS
FreshRecord(g) ==
    /\ g.status = "created" /\ ~g.is_verified
    /\ g.signature = None /\ g.opponent_signature = None
    /\ g.opponent_username = None /\ g.opponent_address = None
C21_Step ==
    CreateAnswers =>
        \/ games' = games
        \/ /\ Len(games') = Len(games) + 1
           /\ SubSeq(games', 1, Len(games)) = games
           /\ FreshRecord(games'[Len(games')])
           /\ ValidCreate(resp'.req)
C21_CreateEffectAndGuard == [][C21_Step]_vars

(***************************************************************************)
(* C22: in create, join and verify-join, a request whose username fails    *)
(* the profile lookup is answered with an error and writes nothing: no     *)
(* record is added and no opponent field is stored.                        *)
(***************************************************************************)
IdentityOps == {"create", "join", "publicJoin", "verifyJoin"}
UnknownIdentity(q) == q.username # None /\ ~getProfileDetail(q.username)
C22_Step ==
    (resp = NoResp /\ resp' # NoResp /\ resp'.op \in IdentityOps /\ UnknownIdentity(resp'.req))
        => ~resp'.ok /\ ~resp'.wrote /\ games' = games
C22_UnknownIdentityAborts == [][C22_Step]_vars
C22_Witness ==
    /\ resp # NoResp /\ resp.op = "verifyJoin" /\ UnknownIdentity(resp.req)
    /\ resp.err = "Ensure you have entered a valid Lichess username"
    /\ games[resp.id].is_verified /\ games[resp.id].opponent_username = None

(***************************************************************************)
(* C23: verify-create takes effect at most once per game: once a record    *)
(* has is_verified true, no later verify-create request writes to it and   *)
(* its stored creator signature never changes.                             *)
(***************************************************************************)
C23_Step ==
    \A i \in Ids :
        games[i].is_verified =>
            /\ games'[i].signature = games[i].signature
            /\ ~(resp = NoResp /\ resp' # NoResp /\ resp'.op = "verifyCreate"
                  /\ resp'.id = i /\ resp'.wrote)
C23_VerifyCreateAtMostOnce == [][C23_Step]_vars

(***************************************************************************)
(* C24: verify-join takes effect at most once per game: once a record      *)
(* holds an opponent address, username and signature, every later join or  *)
(* verify-join on it is rejected and its opponent fields never change.     *)
(***************************************************************************)
FullyMatched(g) ==
    g.opponent_address # None /\ g.opponent_username # None /\ g.opponent_signature # None
OpponentFields(g) == <<g.opponent_address, g.opponent_username, g.opponent_signature>>
C24_Step ==
    \A i \in Ids :
        FullyMatched(games[i]) =>
            /\ OpponentFields(games'[i]) = OpponentFields(games[i])
            /\ ~(resp = NoResp /\ resp' # NoResp /\ resp'.op \in JoinOps
                  /\ resp'.id = i /\ resp'.ok)
C24_VerifyJoinAtMostOnce == [][C24_Step]_vars

(***************************************************************************)
(* C25: of two concurrent verify-join requests from distinct opponents on  *)
(* the same verified game in status created, at most one succeeds: a       *)
(* request that read the record before the other's write and finishes      *)
(* after it fails, and the winner's stored opponent fields stay as they    *)
(* are.                                                                    *)
(***************************************************************************)
C25_Step ==
    \A r \in PendingOf("verifyJoin") :
        (/\ ~FullyMatched(r.game) /\ FullyMatched(games[r.game.id])
         /\ inflight' = inflight (-) SetToBag({r})
         /\ resp' # NoResp /\ resp'.op = "verifyJoin"
         /\ resp'.req.username # games[r.game.id].opponent_username)
            => /\ ~resp'.ok
               /\ OpponentFields(games'[r.game.id]) = OpponentFields(games[r.game.id])
C25_ConcurrentVerifyJoin == [][C25_Step]_vars

(***************************************************************************)
(* C26: a complete request whose read of the record precedes a verify-join *)
(* write and whose payouts follow it applies no payout computed from the   *)
(* row it read: it makes no payout, or the payouts of the record as it is  *)
(* stored when the request finishes.                                       *)
(***************************************************************************)
PayoutsOf(g, req, pays) ==
    \E o \in CompleteOutcomes :
        /\ Attested(o.stat) = req
        /\ CompleteError(g, o.stat) = None
        /\ pays = CompletePayouts(g, o.stat, o.ok1, o.ok2)
C26_Step ==
    \A r \in PendingOf("complete") :
        (/\ ~HasOpponent(r.game) /\ FullyMatched(games[r.game.id])
         /\ inflight' = inflight (-) SetToBag({r})
         /\ resp' # NoResp /\ resp'.op = "complete")
            => resp'.pays = <<>> \/ PayoutsOf(games[r.game.id], resp'.req, resp'.pays)
C26_CompleteRevalidates == [][C26_Step]_vars

(***************************************************************************)
(* C27: in every reachable state, what has been paid out from the escrow   *)
(* for a game is at most the deposits verified for it: the wager while     *)
(* only the creator's deposit is recorded, twice the wager once the        *)
(* opponent's is recorded too (amounts paid are in hundredths).            *)
(***************************************************************************)
VerifiedDeposits(g) ==
    (IF g.is_verified THEN g.amount ELSE 0)
        + (IF g.opponent_signature # None THEN g.amount ELSE 0)
C27_DepositBackedPayouts == \A id \in Ids : paid[id] <= VerifiedDeposits(games[id]) * 100

(***************************************************************************)
(* C28: a ledger transaction is accepted as deposit proof at most once     *)
(* across all games and both sides: a verify-create or verify-join that    *)
(* presents a signature already stored as the creator's or the opponent's  *)
(* signature of some game is rejected.                                     *)
(***************************************************************************)
StoredSignatures ==
    {games[i].signature : i \in Ids} \cup {games[i].opponent_signature : i \in Ids}
C28_Step ==
    (/\ resp = NoResp /\ resp' # NoResp /\ resp'.op \in VerifyOps
     /\ resp'.req.sig # None /\ resp'.req.sig \in StoredSignatures)
        => ~resp'.ok /\ games' = games
C28_NoDepositReplay == [][C28_Step]_vars

(***************************************************************************)
(* C29: after create, no operation changes a record's match id, creation   *)
(* time, wager amount, token, creator username, creator address or escrow  *)
(* address.                                                                *)
(***************************************************************************)
CreateFields(g) ==
    <<g.id, g.game_id, g.created_at, g.amount, g.token, g.username, g.player_address,
      g.recipient_address>>
C29_Step == \A i \in Ids : CreateFields(games'[i]) = CreateFields(games[i])
C29_ImmutableFields == [][C29_Step]_vars
C29_Witness ==
    \E i \in Ids :
        /\ games[i].status = "completed" /\ games[i].opponent_signature # None
        /\ CreateFields(games[i]) = <<i, "m1", i, 2, "SOL", "alice", "A1", Escrow>>

(***************************************************************************)
(* C30: in every reachable state at most one record that is not completed  *)
(* holds a given match id: a create for a match id held by such a record   *)
(* adds no second one.                                                     *)
(***************************************************************************)
Active(g) == g.status # "completed"
C30_MatchIdUniqueness ==
    \A i, j \in Ids :
        (i # j /\ Active(games[i]) /\ Active(games[j])) => games[i].game_id # games[j].game_id

(***************************************************************************)
(* C31: a successful verify-create, verify-join or complete modifies only  *)
(* the record of the game it was addressed to: every other record, the     *)
(* ones with the same match id included, is left as it was.                *)
(***************************************************************************)
WriteOps == {"verifyCreate", "verifyJoin", "complete"}
C31_Step ==
    (resp = NoResp /\ resp' # NoResp /\ resp'.op \in WriteOps /\ resp'.ok)
        => /\ resp'.id \in Ids
           /\ Len(games') = Len(games)
           /\ \A j \in Ids : j # resp'.id => games'[j] = games[j]
C31_RecordIsolation == [][C31_Step]_vars
C31_Witness ==
    /\ resp # NoResp /\ resp.op = "verifyJoin" /\ resp.ok /\ resp.wrote
    /\ Len(games) = 2
    /\ games[resp.id].opponent_signature = resp.req.sig
    /\ \E j \in Ids : j # resp.id /\ games[j].opponent_signature = None

(***************************************************************************)
(* C32: a join request, by link or from the public listing, accepted or    *)
(* refused, writes nothing to the table; the opponent fields of a record   *)
(* change only in a successful verify-join on that record.                 *)
(***************************************************************************)
LinkJoinOps == {"join", "publicJoin"}
C32_Step ==
    /\ (resp = NoResp /\ resp' # NoResp /\ resp'.op \in LinkJoinOps)
            => games' = games /\ ~resp'.wrote
    /\ \A i \in Ids :
            OpponentFields(games'[i]) # OpponentFields(games[i])
                => resp' # NoResp /\ resp'.op = "verifyJoin" /\ resp'.ok /\ resp'.id = i
C32_JoinIsReadOnly == [][C32_Step]_vars
C32_Witness ==
    /\ resp # NoResp /\ resp.op \in LinkJoinOps /\ resp.ok
    /\ resp.req.username = "bob" /\ resp.req.account = "A2"
    /\ games[resp.id].is_verified /\ ~HasOpponent(games[resp.id])

(***************************************************************************)
(* C33: is_verified is false on a record when it is created, becomes true  *)
(* only in a successful verify-create for that game, which stores the      *)
(* creator's signature with it, and never returns to false.                *)
(***************************************************************************)
C33_Step ==
    /\ \A i \in 1..Len(games') :
            /\ i \notin Ids => ~games'[i].is_verified
            /\ games'[i].is_verified => games'[i].signature # None
    /\ \A i \in Ids :
            /\ games[i].is_verified => games'[i].is_verified
            /\ (~games[i].is_verified /\ games'[i].is_verified)
                    => /\ resp' # NoResp /\ resp'.op = "verifyCreate" /\ resp'.ok
                       /\ resp'.id = i /\ games'[i].signature = resp'.req.sig
C33_IsVerifiedDiscipline == [][C33_Step]_vars
C33_Witness ==
    \E i \in Ids :
        /\ games[i].is_verified /\ games[i].signature # None
        /\ games[i].status = "completed"
        /\ \E j \in Ids : ~games[j].is_verified /\ games[j].signature = None

(***************************************************************************)
(* C34: the public listing holds exactly the records with status created,  *)
(* is_verified true and is_public true, oldest first; a game created with  *)
(* the public parameter "false", or without it, is stored with is_public   *)
(* false and so is never listed.                                           *)
(***************************************************************************)
Listed(g) == \E k \in 1..Len(getUnMatchedGames) : getUnMatchedGames[k] = g
C34_Listing ==
    /\ \A i \in Ids :
            Listed(games[i])
                <=> games[i].status = "created" /\ games[i].is_verified /\ games[i].is_public
    /\ \A k \in 1..(Len(getUnMatchedGames) - 1) :
            getUnMatchedGames[k].created_at <= getUnMatchedGames[k + 1].created_at
C34_Step ==
    /\ C34_Listing
    /\ (CreateAnswers /\ resp'.wrote /\ resp'.req.public \in {"false", None})
            => ~games'[resp'.id].is_public
C34_PublicListing == [][C34_Step]_vars

(***************************************************************************)
(* C35: the payouts of a complete request do not depend on the account the *)
(* caller supplies: two requests on the same record that differ only in    *)
(* that account go on in the same way, the payouts made are those the      *)
(* record read and the attested outcome determine, and every recipient is  *)
(* the creator's or the opponent's address of that record.                 *)
(***************************************************************************)
Callers == {a \in Accounts \cup {RivalAddress} : validAccount(a)}
RecordAddresses(g) == {g.player_address, g.opponent_address} \ {None}
C35_Step ==
    /\ (/\ resp = NoResp /\ resp' # NoResp /\ resp'.op = "complete"
         /\ inflight' = inflight /\ resp'.req.account \in Callers)
            => \A a \in Callers : CompleteReadError(resp'.id, a) = resp'.err
    /\ (resp = NoResp /\ resp' = NoResp /\ nreq' = nreq + 1)
            => \A id \in Ids : \A a \in Callers :
                  postCompleteGameRead(id, a)
                      <=> postCompleteGameRead(id, games[id].player_address)
    /\ \A r \in PendingOf("complete") :
            (/\ inflight' = inflight (-) SetToBag({r})
             /\ resp' # NoResp /\ resp'.op = "complete" /\ resp'.pays # <<>>)
                => /\ PayoutsOf(r.game, resp'.req, resp'.pays)
                   /\ \A k \in 1..Len(resp'.pays) :
                          resp'.pays[k].to \in RecordAddresses(r.game)
C35_CallerIndependence == [][C35_Step]_vars
C35_Witness ==
    /\ resp # NoResp /\ resp.op = "complete" /\ resp.ok
    /\ Len(resp.pays) = 2
    /\ resp.pays[1].to = games[resp.id].player_address
    /\ resp.pays[2].to = games[resp.id].opponent_address
    /\ resp.pays[1].to # resp.pays[2].to

====
